---- MODULE Spec2Model ----
(***************************************************************************)
(* Model of challenge.py: three address-file parsers (XML, TSV, TXT), the  *)
(* ZIP sort key, the extension dispatcher and the driver main().           *)
(*                                                                         *)
(* Python str values are sequences of one-character strings; a dict is a   *)
(* function whose DOMAIN is its key set; None is the record ok = FALSE.    *)
(***************************************************************************)
EXTENDS Integers, Sequences, FiniteSets, TLC

VARIABLES files, pc, idx, all_addresses, sorted_addresses, stdout, stderr,
          output_json, writes, status, arg, ret

vars == <<files, pc, idx, all_addresses, sorted_addresses, stdout, stderr,
          output_json, writes, status, arg, ret>>

driverVars == <<files, pc, idx, all_addresses, sorted_addresses, stdout,
                stderr, output_json, writes, status>>

(* ------------------------------ bounds --------------------------------- *)
MaxZipLen == 6
MaxCells == 5
MaxTextLen == 2
MaxTxtLines == 4
MaxFiles == 3

(* --------------------------- str primitives ---------------------------- *)
Whitespace == {" ", "\t", "\n", "\r", "\f"}

Digits == {"0", "1", "2", "3", "4", "5", "6", "7", "8", "9"}

Letters ==
  {"A","B","C","D","E","F","G","H","I","J","K","L","M","N","O","P","Q","R",
   "S","T","U","V","W","X","Y","Z","a","b","c","d","e","f","g","h","i","j",
   "k","l","m","n","o","p","q","r","s","t","u","v","w","x","y","z"}

Min(a, b) == IF a <= b THEN a ELSE b

RECURSIVE lstrip(_)
lstrip(s) ==
  IF s # <<>> /\ Head(s) \in Whitespace THEN lstrip(Tail(s)) ELSE s

RECURSIVE rstrip(_)
rstrip(s) ==
  IF s # <<>> /\ s[Len(s)] \in Whitespace
  THEN rstrip(SubSeq(s, 1, Len(s) - 1))
  ELSE s

strip(s) == rstrip(lstrip(s))

(* str.split(sep) for a one-character sep: always at least one piece *)
RECURSIVE split(_, _)
split(s, sep) ==
  IF \A k \in 1..Len(s) : s[k] # sep
  THEN <<s>>
  ELSE LET p == CHOOSE k \in 1..Len(s) :
                  s[k] = sep /\ \A q \in 1..(k - 1) : s[q] # sep
       IN  <<SubSeq(s, 1, p - 1)>> \o split(SubSeq(s, p + 1, Len(s)), sep)

(* sep.join(parts) *)
RECURSIVE join(_, _)
join(sep, parts) ==
  IF parts = <<>> THEN <<>>
  ELSE IF Len(parts) = 1 THEN parts[1]
  ELSE parts[1] \o sep \o join(sep, Tail(parts))

(* file.readlines(): lines keep their "\n" terminator; a last line without
   a terminator is a line too; empty content gives no lines *)
RECURSIVE readlines(_)
readlines(content) ==
  IF content = <<>> THEN <<>>
  ELSE IF \A k \in 1..Len(content) : content[k] # "\n"
  THEN <<content>>
  ELSE LET p == CHOOSE k \in 1..Len(content) :
                  content[k] = "\n" /\ \A q \in 1..(k - 1) : content[q] # "\n"
       IN  <<SubSeq(content, 1, p)>>
             \o readlines(SubSeq(content, p + 1, Len(content)))

(* needle in haystack *)
Contains(haystack, needle) ==
  \E p \in 1..(Len(haystack) - Len(needle) + 1) :
     SubSeq(haystack, p, p + Len(needle) - 1) = needle

(* a parser's return value: a list of records, or None *)
Returned(recs) == [ok |-> TRUE, raised |-> FALSE, recs |-> recs, err |-> <<>>]

None(msg) == [ok |-> FALSE, raised |-> FALSE, recs |-> <<>>, err |-> <<msg>>]

Raised(msg) == [ok |-> FALSE, raised |-> TRUE, recs |-> <<>>, err |-> <<msg>>]

EmptyDict == [k \in {} |-> <<>>]

(* address[key] = value *)
Put(d, key, value) == (key :> value) @@ d

(* --------------------------- normalize_zip_code ------------------------ *)
ZIP_FALLBACK == <<"0", "0", "0", "0", "0">>

NoMatch == 0

(* re.search(r'(\d{5})', s): scan start positions left to right *)
(* mutant: the search stops one start position early *)
RECURSIVE search_d5_short(_, _)
search_d5_short(s, p) ==
  IF p + 5 > Len(s) THEN NoMatch
  ELSE IF \A k \in p..(p + 4) : s[k] \in Digits THEN p
  ELSE search_d5_short(s, p + 1)

RECURSIVE search_d5(_, _)
search_d5(s, p) ==
  IF p + 4 > Len(s) THEN NoMatch
  ELSE IF \A k \in p..(p + 4) : s[k] \in Digits THEN p
  ELSE search_d5(s, p + 1)

normalize_zip_code(zip_code) ==
  IF zip_code = <<>> THEN ZIP_FALLBACK
  ELSE LET m == search_d5(zip_code, 1)
       IN  IF m # NoMatch THEN SubSeq(zip_code, m, m + 4) ELSE ZIP_FALLBACK

(* ----------------------------- parse_tsv_file -------------------------- *)
TAB == <<"\t">>

NL == <<"\n">>

N_A == <<"N", "/", "A">>

N_M_N == <<"N", "/", "M", "/", "N">>

K_organization == <<"o","r","g","a","n","i","z","a","t","i","o","n">>

K_first == <<"f","i","r","s","t">>

K_middle == <<"m","i","d","d","l","e">>

K_last == <<"l","a","s","t">>

K_address == <<"a","d","d","r","e","s","s">>

K_city == <<"c","i","t","y">>

K_county == <<"c","o","u","n","t","y">>

K_state == <<"s","t","a","t","e">>

K_zip == <<"z","i","p">>

K_zip4 == <<"z","i","p","4">>

(* lines 93-96: later columns with the same header name overwrite earlier *)
tsv_column_data(header, fields) ==
  LET n == Min(Len(header), Len(fields))
  IN  [h \in {header[j] : j \in 1..n} |->
         LET j == CHOOSE j \in 1..n :
                    header[j] = h /\ \A q \in (j + 1)..n : header[q] # h
         IN  strip(fields[j])]

(* 'key' in column_data and column_data[key] and column_data[key] != 'N/A' *)
tsv_present(column_data, key) ==
  /\ key \in DOMAIN column_data
  /\ column_data[key] # <<>>
  /\ column_data[key] # N_A

(* mutant: the name branch is an if of its own, not an elif *)
tsv_identity_both(column_data) ==
  LET org == IF tsv_present(column_data, K_organization)
             THEN Put(EmptyDict, "organization", column_data[K_organization])
             ELSE EmptyDict
  IN  IF K_first \in DOMAIN column_data /\ K_last \in DOMAIN column_data
      THEN Put(org, "name",
               join(<<" ">>, <<column_data[K_first], column_data[K_last]>>))
      ELSE org

(* lines 98-109 *)
tsv_identity(column_data) ==
  IF tsv_present(column_data, K_organization)
  THEN Put(EmptyDict, "organization", column_data[K_organization])
  ELSE IF K_first \in DOMAIN column_data /\ K_last \in DOMAIN column_data
  THEN LET middle ==
             IF /\ K_middle \in DOMAIN column_data
                /\ column_data[K_middle] # <<>>
                /\ column_data[K_middle] # N_M_N
             THEN <<column_data[K_middle]>>
             ELSE <<>>
           name_parts == <<column_data[K_first]>> \o middle
                           \o <<column_data[K_last]>>
       IN  Put(EmptyDict, "name", join(<<" ">>, name_parts))
  ELSE EmptyDict

tsv_copy(address, column_data, column, key) ==
  IF tsv_present(column_data, column)
  THEN Put(address, key, column_data[column])
  ELSE address

(* lines 127-132 *)
tsv_zip(address, column_data) ==
  IF tsv_present(column_data, K_zip)
  THEN IF tsv_present(column_data, K_zip4)
       THEN Put(address, "zip",
                column_data[K_zip] \o <<"-">> \o column_data[K_zip4])
       ELSE Put(address, "zip", column_data[K_zip])
  ELSE address

(* lines 90-132: the record built from one data line *)
tsv_address(column_data) ==
  LET a0 == tsv_identity(column_data)
      a1 == tsv_copy(a0, column_data, K_address, "street")
      a2 == tsv_copy(a1, column_data, K_city, "city")
      a3 == tsv_copy(a2, column_data, K_county, "county")
      a4 == tsv_copy(a3, column_data, K_state, "state")
  IN  tsv_zip(a4, column_data)

(* mutant: len(address) >= 1 *)
tsv_accept_any(address) ==
  /\ "name" \in DOMAIN address \/ "organization" \in DOMAIN address
  /\ Cardinality(DOMAIN address) >= 1

(* line 135 *)
tsv_accept(address) ==
  /\ "name" \in DOMAIN address \/ "organization" \in DOMAIN address
  /\ Cardinality(DOMAIN address) > 1

(* line 87 *)
tsv_fields(line) == split(strip(line), "\t")

(* lines 82-136 *)
RECURSIVE tsv_rows(_, _)
tsv_rows(header, lines) ==
  IF lines = <<>> THEN <<>>
  ELSE IF strip(Head(lines)) = <<>> THEN tsv_rows(header, Tail(lines))
  ELSE LET address == tsv_address(tsv_column_data(header, tsv_fields(Head(lines))))
       IN  (IF tsv_accept(address) THEN <<address>> ELSE <<>>)
             \o tsv_rows(header, Tail(lines))

parse_tsv_file(file) ==
  IF ~file.readable THEN None("Error parsing TSV file")
  ELSE LET lines == readlines(file.text)
       IN  IF lines = <<>> THEN None("Error: Empty TSV file")
           ELSE Returned(tsv_rows(split(strip(lines[1]), "\t"), Tail(lines)))

(* ----------------------------- parse_xml_file -------------------------- *)
(* An ElementTree is modelled after ET.parse: a record element is the
   function from the tags of its children to their text, with <<>> for the
   text None of an element without text. *)

(* element is not None and element.text *)
xml_has_text(record, tag) == tag \in DOMAIN record /\ record[tag] # <<>>

(* lines 28-35 *)
xml_identity(record) ==
  IF xml_has_text(record, "name")
  THEN [emit |-> TRUE, address |-> Put(EmptyDict, "name", strip(record["name"]))]
  ELSE IF xml_has_text(record, "organization")
  THEN [emit |-> TRUE,
        address |-> Put(EmptyDict, "organization", strip(record["organization"]))]
  ELSE [emit |-> FALSE, address |-> EmptyDict]

(* lines 38-56, one field *)
xml_copy(address, record, tag) ==
  IF xml_has_text(record, tag)
  THEN Put(address, tag, strip(record[tag]))
  ELSE address

(* lines 25-58 *)
xml_address(record) ==
  LET id == xml_identity(record)
      a1 == xml_copy(id.address, record, "street")
      a2 == xml_copy(a1, record, "city")
      a3 == xml_copy(a2, record, "county")
      a4 == xml_copy(a3, record, "state")
      a5 == xml_copy(a4, record, "zip")
  IN  [emit |-> id.emit, address |-> a5]

RECURSIVE xml_records(_)
xml_records(records) ==
  IF records = <<>> THEN <<>>
  ELSE LET r == xml_address(Head(records))
       IN  (IF r.emit THEN <<r.address>> ELSE <<>>) \o xml_records(Tail(records))

(* only ET.ParseError is caught: a file that cannot be opened raises *)
parse_xml_file(file) ==
  IF ~file.readable THEN Raised("OSError")
  ELSE IF ~file.tree.wellformed THEN None("Error parsing XML file")
  ELSE Returned(xml_records(file.tree.records))

(* ----------------------------- parse_txt_file -------------------------- *)
(* re.split(r'\n\s*\n', content): the leftmost "\n", then the longest run
   of whitespace that still ends in "\n" *)
RECURSIVE re_split_blank(_)
re_split_blank(s) ==
  LET Ends(p) == {e \in (p + 1)..Len(s) :
                    s[e] = "\n" /\ \A k \in (p + 1)..(e - 1) : s[k] \in Whitespace}
      starts == {p \in 1..Len(s) : s[p] = "\n" /\ Ends(p) # {}}
  IN  IF starts = {} THEN <<s>>
      ELSE LET p == CHOOSE x \in starts : \A y \in starts : x <= y
               e == CHOOSE x \in Ends(p) : \A y \in Ends(p) : y <= x
           IN  <<SubSeq(s, 1, p - 1)>> \o re_split_blank(SubSeq(s, e + 1, Len(s)))

OrgMarkers ==
  {<<"I", "n", "c", ".">>,
   <<"L", "L", "C">>,
   <<"L", "t", "d", ".">>,
   <<"C", "o", "m", "p", "a", "n", "y">>,
   <<"C", "o", "r", "p", ".">>,
   <<"C", "o", "r", "p", "o", "r", "a", "t", "i", "o", "n">>}

(* line 167 *)
txt_is_organization(first_line) ==
  \E m \in OrgMarkers : Contains(first_line, m)

IsDigitRun(s, p, n) ==
  p + n - 1 <= Len(s) /\ \A k \in p..(p + n - 1) : s[k] \in Digits

(* first position at or after p whose character is not in class *)
RECURSIVE SkipClass(_, _, _)
SkipClass(s, p, class) ==
  IF p <= Len(s) /\ s[p] \in class THEN SkipClass(s, p + 1, class) ELSE p

(* first position at or after p holding a comma, Len(s) + 1 if none *)
RECURSIVE NextComma(_, _)
NextComma(s, p) ==
  IF p <= Len(s) /\ s[p] # "," THEN NextComma(s, p + 1) ELSE p

LocFail == [ok |-> FALSE, city |-> <<>>, county |-> <<>>, state |-> <<>>, zip |-> <<>>]

(* \s+(\d{5}(?:-\d{4})?) at q: the whitespace run is taken whole, because a
   shorter one leaves a whitespace character where a digit is needed *)
loc_zip(s, q) ==
  LET w == SkipClass(s, q, Whitespace)
  IN  IF w > q /\ IsDigitRun(s, w, 5)
      THEN IF w + 5 <= Len(s) /\ s[w + 5] = "-" /\ IsDigitRun(s, w + 6, 4)
           THEN SubSeq(s, w, w + 9)
           ELSE SubSeq(s, w, w + 4)
      ELSE <<>>

LocTail(state, zip) ==
  [ok |-> TRUE, city |-> <<>>, county |-> <<>>, state |-> state, zip |-> zip]

(* the second alternative [A-Za-z]+, its letters taken greedily up to L *)
loc_tail_word(s, p, L, zip) ==
  IF L > p /\ zip # <<>> THEN LocTail(SubSeq(s, p, L - 1), zip) ELSE LocFail

loc_tail_pair(s, p, zip, L) ==
  IF p + 1 <= Len(s) /\ s[p] \in Letters /\ s[p + 1] \in Letters /\ zip # <<>>
  THEN LocTail(SubSeq(s, p, p + 1), zip)
  ELSE loc_tail_word(s, p, L, loc_zip(s, L))

(* ([A-Za-z]{2}|[A-Za-z]+)\s+(\d{5}(?:-\d{4})?) at p: first alternative,
   then the second *)
loc_tail(s, p) == loc_tail_pair(s, p, loc_zip(s, p + 2), SkipClass(s, p, Letters))

loc_county_pick(s, r, c2, with) ==
  IF with.ok THEN [with EXCEPT !.county = SubSeq(s, r, c2 - 1)]
  ELSE loc_tail(s, r)

loc_county_at(s, r, c2) ==
  loc_county_pick(s, r, c2,
                  IF c2 > r /\ c2 <= Len(s)
                  THEN loc_tail(s, SkipClass(s, c2 + 1, Whitespace))
                  ELSE LocFail)

(* the optional county group at r, followed by the tail: with the group
   first, then without it *)
loc_county(s, r) == loc_county_at(s, r, NextComma(s, r))

(* ,\s* after the city: the whitespace run from longest to empty *)
RECURSIVE loc_after_city(_, _, _)
RECURSIVE loc_after_city_pick(_, _, _, _)
loc_after_city_pick(s, a, r, m) ==
  IF m.ok THEN m
  ELSE IF r > a THEN loc_after_city(s, a, r - 1)
  ELSE LocFail

loc_after_city(s, a, r) == loc_after_city_pick(s, a, r, loc_county(s, r))

(* re.search of the location pattern: start positions left to right *)
RECURSIVE location_search(_, _)
RECURSIVE location_search_pick(_, _, _, _)
location_search_pick(s, start, c1, m) ==
  IF m.ok THEN [m EXCEPT !.city = SubSeq(s, start, c1 - 1)]
  ELSE location_search(s, start + 1)

location_search_at(s, start, c1) ==
  location_search_pick(s, start, c1,
                       IF c1 > start /\ c1 <= Len(s)
                       THEN loc_after_city(s, c1 + 1, SkipClass(s, c1 + 1, Whitespace))
                       ELSE LocFail)

location_search(s, start) ==
  IF start > Len(s) THEN LocFail
  ELSE location_search_at(s, start, NextComma(s, start))

StripAll(lines) == [k \in 1..Len(lines) |-> strip(lines[k])]

(* lines 166-170 *)
txt_identity(first_line) ==
  IF txt_is_organization(first_line)
  THEN Put(EmptyDict, "organization", first_line)
  ELSE Put(EmptyDict, "name", first_line)

(* lines 173-174 *)
txt_street(address, lines) ==
  IF Len(lines) >= 2 THEN Put(address, "street", lines[2]) ELSE address

(* lines 187-195 *)
txt_location(address, m) ==
  IF ~m.ok THEN address
  ELSE Put(Put(IF m.county # <<>>
               THEN Put(Put(address, "city", strip(m.city)), "county", strip(m.county))
               ELSE Put(address, "city", strip(m.city)),
               "state", strip(m.state)),
           "zip", strip(m.zip))

txt_lines(lines) ==
  txt_location(txt_street(txt_identity(lines[1]), lines),
               IF Len(lines) >= 3 THEN location_search(lines[Len(lines)], 1) ELSE LocFail)

(* lines 159-197: the record of one paragraph *)
txt_address(record) == txt_lines(StripAll(split(strip(record), "\n")))

RECURSIVE txt_records(_)
txt_records(records) ==
  IF records = <<>> THEN <<>>
  ELSE IF strip(Head(records)) = <<>> THEN txt_records(Tail(records))
  ELSE <<txt_address(Head(records))>> \o txt_records(Tail(records))

parse_txt_file(file) ==
  IF ~file.readable THEN None("Error parsing TXT file")
  ELSE Returned(txt_records(re_split_blank(file.text)))

(* ------------------------------- parse_file ---------------------------- *)
UpperCase == <<"A","B","C","D","E","F","G","H","I","J","K","L","M","N","O","P",
               "Q","R","S","T","U","V","W","X","Y","Z">>

LowerCase == <<"a","b","c","d","e","f","g","h","i","j","k","l","m","n","o","p",
               "q","r","s","t","u","v","w","x","y","z">>

(* str.lower() *)
lower(s) ==
  [k \in 1..Len(s) |->
     IF \E u \in 1..26 : UpperCase[u] = s[k]
     THEN LowerCase[CHOOSE u \in 1..26 : UpperCase[u] = s[k]]
     ELSE s[k]]

LastIndex(s, c) ==
  IF \E k \in 1..Len(s) : s[k] = c
  THEN CHOOSE k \in 1..Len(s) : s[k] = c /\ \A q \in (k + 1)..Len(s) : s[q] # c
  ELSE 0

(* os.path.splitext(filepath)[1]: from the last dot of the last path
   component, unless only dots precede it there *)
splitext_ext(filepath) ==
  LET sepIndex == LastIndex(filepath, "/")
      dotIndex == LastIndex(filepath, ".")
  IN  IF /\ dotIndex > sepIndex
         /\ \E k \in (sepIndex + 1)..(dotIndex - 1) : filepath[k] # "."
      THEN SubSeq(filepath, dotIndex, Len(filepath))
      ELSE <<>>

EXT_XML == <<".", "x", "m", "l">>

EXT_TSV == <<".", "t", "s", "v">>

EXT_TXT == <<".", "t", "x", "t">>

(* lines 217-230, on the file the path names *)
parse_ext(ext, file) ==
  IF ext = EXT_XML THEN parse_xml_file(file)
  ELSE IF ext = EXT_TSV THEN parse_tsv_file(file)
  ELSE IF ext = EXT_TXT THEN parse_txt_file(file)
  ELSE None("Error: Unsupported file extension")

(* ------------------------------- the file system ----------------------- *)
NoTree == [wellformed |-> FALSE, records |-> <<>>]

TextFile(text) == [exists |-> TRUE, readable |-> TRUE, text |-> text, tree |-> NoTree]

XmlFile(records) ==
  [exists |-> TRUE, readable |-> TRUE, text |-> <<>>,
   tree |-> [wellformed |-> TRUE, records |-> records]]

P_a_xml == <<"a", ".", "x", "m", "l">>

P_b_TSV == <<"i", "n", "/", "b", ".", "T", "S", "V">>

P_c_txt == <<"c", ".", "t", "x", "t">>

P_bad_xml == <<"b", "a", "d", ".", "x", "m", "l">>

P_d_csv == <<"d", ".", "c", "s", "v">>

P_e_txt == <<"e", ".", "t", "x", "t">>

P_e_tsv == <<"e", ".", "t", "s", "v">>

P_gone_txt == <<"g", "o", "n", "e", ".", "t", "x", "t">>

P_locked_xml == <<"l", "o", "c", "k", "e", "d", ".", "x", "m", "l">>

Paths == {P_a_xml, P_b_TSV, P_c_txt, P_bad_xml, P_d_csv, P_e_txt, P_e_tsv,
          P_gone_txt, P_locked_xml}

Disk ==
  (P_a_xml :> XmlFile(<<
      ("name" :> <<"A", "l">>) @@ ("zip" :> <<"2", "2", "2", "2", "2">>),
      ("organization" :> <<"Z", " ", "C", "o">>) @@ ("city" :> <<"A", "v", "a">>) @@ ("zip" :> <<"1", "1", "1", "1", "1", "-", "0", "0", "0", "1">>),
      ("name" :> <<"B", "o">>) @@ ("street" :> <<"2", " ", "R", "d">>)>>))
  @@ (P_b_TSV :> TextFile(<<"f", "i", "r", "s", "t", "\t", "l", "a", "s", "t", "\t", "z", "i", "p", "\n", "C", "y", "\t", "D", "o", "\t", "1", "1", "1", "1", "1", "\n", "E", "d", "\t", "F", "y", "\t", "3", "3", "3", "3", "3", "\n">>))
  @@ (P_c_txt :> TextFile(<<"G", "i", " ", "I", "n", "c", ".", "\n", "1", " ", "S", "t", "\n", "A", "v", "a", ",", " ", "I", "L", " ", "2", "2", "2", "2", "2", "\n", "\n", "H", "o", "\n", "9", " ", "L", "n", "\n">>))
  @@ (P_bad_xml :> [exists |-> TRUE, readable |-> TRUE, text |-> <<>>, tree |-> NoTree])
  @@ (P_d_csv :> TextFile(<<"a", ",", "b", "\n">>))
  @@ (P_e_txt :> TextFile(<<>>))
  @@ (P_e_tsv :> TextFile(<<>>))
  @@ (P_gone_txt :> [exists |-> FALSE, readable |-> FALSE, text |-> <<>>, tree |-> NoTree])
  @@ (P_locked_xml :> [exists |-> TRUE, readable |-> FALSE, text |-> <<>>, tree |-> NoTree])

parse_file(filepath) == parse_ext(lower(splitext_ext(filepath)), Disk[filepath])

(* ---------------------------------- sorted ----------------------------- *)
CodePoint ==
  ("0" :> 48) @@ ("1" :> 49) @@ ("2" :> 50) @@ ("3" :> 51) @@ ("4" :> 52)
  @@ ("5" :> 53) @@ ("6" :> 54) @@ ("7" :> 55) @@ ("8" :> 56) @@ ("9" :> 57)

(* str < str: by code point at the first difference, a proper prefix first *)
StrLess(a, b) ==
  \/ /\ Len(a) < Len(b)
     /\ \A k \in 1..Len(a) : a[k] = b[k]
  \/ \E k \in 1..Min(Len(a), Len(b)) :
       /\ \A q \in 1..(k - 1) : a[q] = b[q]
       /\ CodePoint[a[k]] < CodePoint[b[k]]

(* x.get('zip', '') *)
get_zip(x) == IF "zip" \in DOMAIN x THEN x["zip"] ELSE <<>>

(* line 262: key=lambda x: normalize_zip_code(x.get('zip', '')) *)
sort_key(x) == normalize_zip_code(get_zip(x))

(* mutant: x goes before the first element whose key is not smaller *)
RECURSIVE insert_sorted_unstable(_, _)
insert_sorted_unstable(acc, x) ==
  IF acc = <<>> THEN <<x>>
  ELSE IF ~StrLess(sort_key(Head(acc)), sort_key(x)) THEN <<x>> \o acc
  ELSE <<Head(acc)>> \o insert_sorted_unstable(Tail(acc), x)

(* x goes before the first element whose key is greater than its own *)
RECURSIVE insert_sorted(_, _)
insert_sorted(acc, x) ==
  IF acc = <<>> THEN <<x>>
  ELSE IF StrLess(sort_key(x), sort_key(Head(acc))) THEN <<x>> \o acc
  ELSE <<Head(acc)>> \o insert_sorted(Tail(acc), x)

(* sorted(list, key=...): a stable sort *)
RECURSIVE sorted_onto(_, _)
sorted_onto(acc, rest) ==
  IF rest = <<>> THEN acc
  ELSE sorted_onto(insert_sorted(acc, Head(rest)), Tail(rest))

(* mutant: the list is used as it was accumulated *)
unsorted(list) == list

sorted(list) == sorted_onto(<<>>, list)

(* ---------------------------------- main ------------------------------- *)
NoStatus == -1

NotWritten == [written |-> FALSE, value |-> <<>>]

NotCalled ==
  [done |-> FALSE, ok |-> FALSE, raised |-> FALSE, recs |-> <<>>, err |-> <<>>,
   key |-> <<>>]

NoArg == [fn |-> "none", exists |-> FALSE, readable |-> FALSE, text |-> <<>>, tree |-> NoTree]

SeqsUpTo(S, lo, hi) == UNION {[1..n -> S] : n \in lo..hi}

Init ==
  /\ files \in SeqsUpTo(Paths, 1, MaxFiles)
  /\ pc = "check"
  /\ idx = 1
  /\ all_addresses = <<>>
  /\ sorted_addresses = <<>>
  /\ stdout = <<>>
  /\ stderr = <<>>
  /\ output_json = NotWritten
  /\ writes = 0
  /\ status = NoStatus
  /\ arg = NoArg
  /\ ret = NotCalled

(* lines 247-250, a file that is there *)
CheckFileFound ==
  /\ pc = "check"
  /\ Disk[files[idx]].exists
  /\ IF idx < Len(files)
     THEN idx' = idx + 1 /\ pc' = pc
     ELSE idx' = 1 /\ pc' = "parse"
  /\ UNCHANGED <<files, all_addresses, sorted_addresses, stdout, stderr,
                 output_json, writes, status, arg, ret>>

(* lines 248-250 *)
CheckFileMissing ==
  /\ pc = "check"
  /\ ~Disk[files[idx]].exists
  /\ stderr' = Append(stderr, "Error: File not found")
  /\ status' = 1
  /\ pc' = "exited"
  /\ UNCHANGED <<files, idx, all_addresses, sorted_addresses, stdout,
                 output_json, writes, arg, ret>>

(* lines 255-259, a file that parses *)
ParseFileOk ==
  /\ pc = "parse"
  /\ \E addresses \in {parse_file(files[idx])} :
         /\ addresses.ok
         /\ all_addresses' = all_addresses \o addresses.recs
  /\ IF idx < Len(files)
     THEN idx' = idx + 1 /\ pc' = pc
     ELSE idx' = idx /\ pc' = "sort"
  /\ UNCHANGED <<files, sorted_addresses, stdout, stderr, output_json,
                 writes, status, arg, ret>>

(* mutant: a file whose parser returned None is skipped *)
ParseFileNone_skip ==
  /\ pc = "parse"
  /\ \E addresses \in {parse_file(files[idx])} :
         /\ ~addresses.ok
         /\ ~addresses.raised
         /\ stderr' = stderr \o addresses.err
  /\ IF idx < Len(files)
     THEN idx' = idx + 1 /\ pc' = pc
     ELSE idx' = idx /\ pc' = "sort"
  /\ UNCHANGED <<files, all_addresses, sorted_addresses, stdout,
                 output_json, writes, status, arg, ret>>

(* lines 256-258: the parser returned None *)
ParseFileNone ==
  /\ pc = "parse"
  /\ \E addresses \in {parse_file(files[idx])} :
         /\ ~addresses.ok
         /\ ~addresses.raised
         /\ stderr' = stderr \o addresses.err
  /\ status' = 1
  /\ pc' = "exited"
  /\ UNCHANGED <<files, idx, all_addresses, sorted_addresses, stdout,
                 output_json, writes, arg, ret>>

(* line 256: an exception no handler catches ends the interpreter *)
ParseFileRaised ==
  /\ pc = "parse"
  /\ \E addresses \in {parse_file(files[idx])} :
         /\ addresses.raised
         /\ stderr' = stderr \o addresses.err
  /\ status' = 1
  /\ pc' = "exited"
  /\ UNCHANGED <<files, idx, all_addresses, sorted_addresses, stdout,
                 output_json, writes, arg, ret>>

(* line 262 *)
SortAddresses ==
  /\ pc = "sort"
  /\ sorted_addresses' = sorted(all_addresses)
  /\ pc' = "dump"
  /\ UNCHANGED <<files, idx, all_addresses, stdout, stderr, output_json,
                 writes, status, arg, ret>>

(* line 265 *)
DumpToStdout ==
  /\ pc = "dump"
  /\ stdout' = Append(stdout, [kind |-> "json", value |-> sorted_addresses, count |-> 0])
  /\ pc' = "write"
  /\ UNCHANGED <<files, idx, all_addresses, sorted_addresses, stderr,
                 output_json, writes, status, arg, ret>>

(* lines 268-269 *)
WriteOutputJson ==
  /\ pc = "write"
  /\ output_json' = [written |-> TRUE, value |-> sorted_addresses]
  /\ writes' = writes + 1
  /\ pc' = "report"
  /\ UNCHANGED <<files, idx, all_addresses, sorted_addresses, stdout, stderr,
                 status, arg, ret>>

(* lines 271-273 *)
ReportAndExit ==
  /\ pc = "report"
  /\ stdout' = Append(stdout, [kind |-> "message", value |-> <<>>,
                               count |-> Len(sorted_addresses)])
  /\ status' = 0
  /\ pc' = "exited"
  /\ UNCHANGED <<files, idx, all_addresses, sorted_addresses, stderr,
                 output_json, writes, arg, ret>>

Next ==
  \/ CheckFileFound
  \/ CheckFileMissing
  \/ ParseFileOk
  \/ ParseFileNone
  \/ ParseFileRaised
  \/ SortAddresses
  \/ DumpToStdout
  \/ WriteOutputJson
  \/ ReportAndExit

Spec == Init /\ [][Next]_vars

(* ----------------- the parsers and the ZIP key, called alone ----------- *)
ZipAlphabet == {"1", "2", "-", "a"}

ZipInputs == SeqsUpTo(ZipAlphabet, 0, MaxZipLen)

TsvHeaders ==
  {<<K_first, K_last, K_city>>,
   <<K_organization, K_first, K_last, K_zip>>,
   <<K_first, K_middle, K_last, K_state>>,
   <<K_organization, K_address, K_county>>,
   <<K_first, K_last, K_zip, K_zip4>>}

TsvCells == {<<>>, <<" ">>, <<"a">>, N_A, N_M_N}

TsvRows == SeqsUpTo(TsvCells, 1, MaxCells)

(* a header line alone, a header line and one data line, and two files of
   two data lines *)
TsvInputs ==
  {<<>>}
  \cup {join(TAB, h) \o NL : h \in TsvHeaders}
  \cup {join(TAB, h) \o NL \o join(TAB, r) \o NL : h \in TsvHeaders, r \in TsvRows}
  \cup {join(TAB, <<K_first, K_last, K_city>>) \o NL \o r \o NL \o <<"b", "\t", "c", "\t", "d">> :
          r \in {<<"a", "\t", "a", "\t", "a">>, <<" ", "\t", " ">>, <<"a">>}}

XmlIdTexts == SeqsUpTo({" ", "a"}, 0, MaxTextLen)

XmlTags == {"name", "organization", "street", "city", "county", "state", "zip"}

IdentityTags == {"name", "organization"}

XmlIdOptions ==
  {[present |-> FALSE, text |-> <<>>]} \cup {[present |-> TRUE, text |-> t] : t \in XmlIdTexts}

XmlOtherOptions ==
  {[present |-> FALSE, text |-> <<>>], [present |-> TRUE, text |-> <<" ">>],
   [present |-> TRUE, text |-> <<"b">>]}

XmlRecords ==
  {[t \in {x \in XmlTags : (id @@ other)[x].present} |-> (id @@ other)[t].text] :
     id \in [IdentityTags -> XmlIdOptions],
     other \in [XmlTags \ IdentityTags -> XmlOtherOptions]}

XmlFewRecords ==
  {("name" :> <<"a">>) @@ ("zip" :> <<"b">>), ("street" :> <<"b">>),
   ("organization" :> <<"a", " ">>)}

XmlTrees ==
  {NoTree, [wellformed |-> TRUE, records |-> <<>>]}
  \cup {[wellformed |-> TRUE, records |-> <<r>>] : r \in XmlRecords}
  \cup {[wellformed |-> TRUE, records |-> <<r1, r2>>] : r1 \in XmlFewRecords, r2 \in XmlFewRecords}

TxtLines ==
  {<<>>, <<" ">>, <<"A", "l">>, <<"A", " ", "L", "L", "C">>, <<"1", " ", "S", "t">>, <<"B", ",", " ", "I", "L", " ", "1", "2", "3", "4", "5">>,
   <<"B", ",", " ", "C", ",", " ", "I", "L", " ", "1", "2", "3", "4", "5", "-", "6", "7", "8", "9">>}

TxtInputs == {join(NL, ls) : ls \in SeqsUpTo(TxtLines, 0, MaxTxtLines)}

InitDriverIdle ==
  /\ files = <<>>
  /\ pc = "idle"
  /\ idx = 1
  /\ all_addresses = <<>>
  /\ sorted_addresses = <<>>
  /\ stdout = <<>>
  /\ stderr = <<>>
  /\ output_json = NotWritten
  /\ writes = 0
  /\ status = NoStatus

ParserInit ==
  /\ InitDriverIdle
  /\ ret = NotCalled
  /\ \/ \E z \in ZipInputs :
          arg = [fn |-> "zip", exists |-> TRUE, readable |-> TRUE, text |-> z, tree |-> NoTree]
     \/ \E t \in TsvInputs, r \in BOOLEAN :
          /\ r \/ t = <<>>
          /\ arg = [fn |-> "tsv", exists |-> TRUE, readable |-> r, text |-> t, tree |-> NoTree]
     \/ \E t \in TxtInputs, r \in BOOLEAN :
          /\ r \/ t = <<>>
          /\ arg = [fn |-> "txt", exists |-> TRUE, readable |-> r, text |-> t, tree |-> NoTree]
     \/ \E t \in XmlTrees, r \in BOOLEAN :
          /\ r \/ t = NoTree
          /\ arg = [fn |-> "xml", exists |-> TRUE, readable |-> r, text |-> <<>>, tree |-> t]

Result(r) ==
  [done |-> TRUE, ok |-> r.ok, raised |-> r.raised, recs |-> r.recs,
   err |-> r.err, key |-> <<>>]

CallNormalizeZip ==
  /\ arg.fn = "zip"
  /\ ~ret.done
  /\ ret' = [NotCalled EXCEPT !.done = TRUE, !.ok = TRUE,
                              !.key = normalize_zip_code(arg.text)]
  /\ UNCHANGED <<driverVars, arg>>

CallParseXml ==
  /\ arg.fn = "xml"
  /\ ~ret.done
  /\ ret' = Result(parse_xml_file(arg))
  /\ UNCHANGED <<driverVars, arg>>

CallParseTsv ==
  /\ arg.fn = "tsv"
  /\ ~ret.done
  /\ ret' = Result(parse_tsv_file(arg))
  /\ UNCHANGED <<driverVars, arg>>

CallParseTxt ==
  /\ arg.fn = "txt"
  /\ ~ret.done
  /\ ret' = Result(parse_txt_file(arg))
  /\ UNCHANGED <<driverVars, arg>>

ParserNext ==
  \/ CallNormalizeZip
  \/ CallParseXml
  \/ CallParseTsv
  \/ CallParseTxt

ParserSpec == ParserInit /\ [][ParserNext]_vars

(* =========================== properties ================================ *)
ZipKeyOf(x) == normalize_zip_code(IF "zip" \in DOMAIN x THEN x["zip"] ELSE <<>>)

RECURSIVE ConcatParsed(_)
ConcatParsed(fs) ==
  IF fs = <<>> THEN <<>>
  ELSE parse_file(Head(fs)).recs \o ConcatParsed(Tail(fs))

Unrecognized(filepath) ==
  lower(splitext_ext(filepath)) \notin {EXT_XML, EXT_TSV, EXT_TXT}

AnyBadInput ==
  \E k \in 1..Len(files) :
     \/ ~Disk[files[k]].exists
     \/ Unrecognized(files[k])
     \/ ~parse_file(files[k]).ok

JsonOnStdout == \E k \in 1..Len(stdout) : stdout[k].kind = "json"

(* C1: all-or-nothing run.  If any input path is missing, has an
   unrecognized extension or fails to parse, output.json is never written, no
   JSON array reaches stdout and the run ends with a non-zero status, however
   many earlier files parsed; otherwise the run ends with status zero after
   exactly one write of output.json (and never more than one). *)
C1_AllOrNothing ==
  /\ writes <= 1
  /\ output_json.written <=> writes = 1
  /\ AnyBadInput =>
       /\ ~output_json.written
       /\ ~JsonOnStdout
       /\ pc \in {"check", "parse", "exited"}
       /\ pc = "exited" => status # 0
  /\ ~AnyBadInput /\ pc = "exited" =>
       /\ status = 0
       /\ writes = 1
       /\ output_json.value = sorted_addresses
       /\ stdout[1] = [kind |-> "json", value |-> output_json.value, count |-> 0]
  /\ pc = "exited" /\ status = 0 => ~AnyBadInput

(* a run that failed after earlier files had parsed and given records *)
C1_Witness ==
  /\ pc = "exited"
  /\ status = 1
  /\ AnyBadInput
  /\ all_addresses # <<>>
  /\ ~output_json.written

SubseqWithKey(seq, k) ==
  LET HasKey(x) == ZipKeyOf(x) = k
  IN  SelectSeq(seq, HasKey)

KeysOf(seq) == {ZipKeyOf(seq[i]) : i \in 1..Len(seq)}

IsStableSortOf(out, in) ==
  /\ Len(out) = Len(in)
  /\ \A i \in 1..(Len(out) - 1) : ~StrLess(ZipKeyOf(out[i + 1]), ZipKeyOf(out[i]))
  /\ \A k \in KeysOf(out) \cup KeysOf(in) : SubseqWithKey(out, k) = SubseqWithKey(in, k)

(* C2: the array written (and the one on stdout) is the stable sort by
   normalized ZIP key of the concatenation of the per-file record sequences:
   same length, keys non-decreasing, and for every key the records holding it
   are those of the concatenation, in the concatenation's order. *)
C2_StableSort ==
  /\ output_json.written => IsStableSortOf(output_json.value, ConcatParsed(files))
  /\ \A k \in 1..Len(stdout) :
       stdout[k].kind = "json" => IsStableSortOf(stdout[k].value, ConcatParsed(files))

(* the sort moved records, and kept two different records of one key, one
   of them in the fallback group, in input order *)
C2_Witness ==
  /\ output_json.written
  /\ output_json.value # ConcatParsed(files)
  /\ Len(files) >= 2
  /\ \E i, j \in 1..Len(output_json.value) :
       /\ i < j
       /\ output_json.value[i] # output_json.value[j]
       /\ ZipKeyOf(output_json.value[i]) = ZipKeyOf(output_json.value[j])
  /\ \E i \in 1..Len(output_json.value) :
       ZipKeyOf(output_json.value[i]) = ZIP_FALLBACK

(* lines 252-262 as a function of the argument list *)
PipelineOutput(fs) == sorted(ConcatParsed(fs))

Count(seq, r) == Cardinality({i \in 1..Len(seq) : seq[i] = r})

SameMultiset(a, b) ==
  /\ Len(a) = Len(b)
  /\ \A i \in 1..Len(a) : Count(a, a[i]) = Count(b, a[i])

Reordered(fs, q) == [k \in 1..Len(fs) |-> fs[q[k]]]

(* C6: order independence.  The output of a successful run and the output
   for the same files in any other order hold the same multiset of records
   and the same normalized ZIP key at every position. *)
C6_OrderIndependent ==
  output_json.written =>
    \A q \in Permutations(1..Len(files)) :
       LET other == PipelineOutput(Reordered(files, q))
       IN  /\ SameMultiset(output_json.value, other)
           /\ \A i \in 1..Len(other) :
                ZipKeyOf(other[i]) = ZipKeyOf(output_json.value[i])

(* another order of these files gives a different array *)
C6_Witness ==
  /\ output_json.written
  /\ \E q \in Permutations(1..Len(files)) :
       /\ Reordered(files, q) # files
       /\ PipelineOutput(Reordered(files, q)) # output_json.value

IsEmptyText(filepath) ==
  /\ Disk[filepath].exists
  /\ Disk[filepath].readable
  /\ Disk[filepath].text = <<>>
  /\ lower(splitext_ext(filepath)) \in {EXT_TSV, EXT_TXT}

(* C7: a run given an empty .tsv or .txt file ends with a non-zero status
   and writes no output. *)
C7_EmptyFileFails ==
  (\E k \in 1..Len(files) : IsEmptyText(files[k])) /\ pc = "exited" =>
     status # 0 /\ ~output_json.written /\ ~JsonOnStdout

Called(fn) == ret.done /\ arg.fn = fn

IdentityKeys == {"name", "organization"}

NonIdentityKeys == {"street", "city", "county", "state", "zip"}

XmlNoIdentityText(record) ==
  /\ ~("name" \in DOMAIN record /\ record["name"] # <<>>)
  /\ ~("organization" \in DOMAIN record /\ record["organization"] # <<>>)

TsvHeaderOf(text) == split(strip(readlines(text)[1]), "\t")

TsvDataLines(text) ==
  LET NotBlank(line) == strip(line) # <<>>
  IN  SelectSeq(Tail(readlines(text)), NotBlank)

TsvNoIdentity(column_data) ==
  /\ ~tsv_present(column_data, K_organization)
  /\ ~(K_first \in DOMAIN column_data /\ K_last \in DOMAIN column_data)

(* C3: every record a parser returns has exactly one of the keys name and
   organization; a markup record without identity text and a tabular row
   without a resolvable identity give no record. *)
C3_OneIdentity ==
  /\ ret.done /\ arg.fn \in {"xml", "tsv", "txt"} =>
       \A i \in 1..Len(ret.recs) :
          Cardinality(DOMAIN ret.recs[i] \cap IdentityKeys) = 1
  /\ Called("xml") /\ ret.ok =>
       Len(ret.recs) =
         Cardinality({k \in 1..Len(arg.tree.records) :
                        ~XmlNoIdentityText(arg.tree.records[k])})
  /\ Called("tsv") /\ ret.ok =>
       LET lines == TsvDataLines(arg.text)
       IN  Len(ret.recs) <=
             Cardinality({k \in 1..Len(lines) :
                ~TsvNoIdentity(tsv_column_data(TsvHeaderOf(arg.text),
                                               tsv_fields(lines[k])))})

(* a tabular row with a usable organization and with first and last columns
   was emitted *)
C3_Witness ==
  /\ Called("tsv")
  /\ Len(ret.recs) = 1
  /\ Len(TsvDataLines(arg.text)) = 1
  /\ LET cd == tsv_column_data(TsvHeaderOf(arg.text), tsv_fields(TsvDataLines(arg.text)[1]))
     IN  /\ tsv_present(cd, K_organization)
         /\ K_first \in DOMAIN cd
         /\ K_last \in DOMAIN cd

NonBlank(value) == strip(value) # <<>>

(* C4: every value stored in a record of the markup parser or of the
   tabular parser is non-blank. *)
C4_NoBlankValues ==
  ret.done /\ arg.fn \in {"xml", "tsv"} =>
     \A i \in 1..Len(ret.recs) :
        \A key \in DOMAIN ret.recs[i] : NonBlank(ret.recs[i][key])

FiveDigits(key) == Len(key) = 5 /\ \A k \in 1..5 : key[k] \in Digits

(* a maximal run of digits of length exactly 5 starts at p *)
ExactRunAt(s, p) ==
  /\ IsDigitRun(s, p, 5)
  /\ p = 1 \/ s[p - 1] \notin Digits
  /\ p + 5 > Len(s) \/ s[p + 5] \notin Digits

FirstOf(s, P) ==
  IF P = {} THEN ZIP_FALLBACK
  ELSE LET p == CHOOSE x \in P : \A y \in P : x <= y
       IN  SubSeq(s, p, p + 4)

(* C5 as stated: the key is the first run of exactly 5 digits of the input,
   "00000" when the input has no such run; the key is always 5 digits. *)
C5_FirstExactRun ==
  Called("zip") =>
     /\ FiveDigits(ret.key)
     /\ ret.key = FirstOf(arg.text, {p \in 1..Len(arg.text) : ExactRunAt(arg.text, p)})

(* C5 amended: the key is the first 5 consecutive digits of the input,
   whether or not more digits follow or precede them, "00000" when the input
   has no 5 consecutive digits; the key is always 5 digits. *)
C5_FirstFiveDigits ==
  Called("zip") =>
     /\ FiveDigits(ret.key)
     /\ ret.key = FirstOf(arg.text, {p \in 1..Len(arg.text) : IsDigitRun(arg.text, p, 5)})

(* the key was cut out of a run of more than 5 digits *)
C5_Witness ==
  /\ Called("zip")
  /\ \E p \in 1..Len(arg.text) : IsDigitRun(arg.text, p, 6)
  /\ ret.key # ZIP_FALLBACK

XmlClaimedIdentity(record) ==
  IF "name" \in DOMAIN record /\ NonBlank(record["name"])
  THEN <<Put(EmptyDict, "name", strip(record["name"]))>>
  ELSE IF "organization" \in DOMAIN record /\ NonBlank(record["organization"])
  THEN <<Put(EmptyDict, "organization", strip(record["organization"]))>>
  ELSE <<>>

RECURSIVE XmlClaimedIdentities(_)
XmlClaimedIdentities(records) ==
  IF records = <<>> THEN <<>>
  ELSE XmlClaimedIdentity(Head(records)) \o XmlClaimedIdentities(Tail(records))

IdentityPart(address) == [k \in DOMAIN address \cap IdentityKeys |-> address[k]]

(* C8: the markup parser emits, for each record element in order, the
   trimmed name when the name text is non-blank after trimming, else the
   trimmed organization when that is non-blank after trimming, and nothing
   when neither is. *)
C8_MarkupIdentity ==
  Called("xml") /\ ret.ok =>
     [i \in 1..Len(ret.recs) |-> IdentityPart(ret.recs[i])]
       = XmlClaimedIdentities(arg.tree.records)

Chomp(line) ==
  IF line # <<>> /\ line[Len(line)] = "\n"
  THEN SubSeq(line, 1, Len(line) - 1)
  ELSE line

RECURSIVE PositionalRows(_, _)
PositionalRows(header, lines) ==
  IF lines = <<>> THEN <<>>
  ELSE IF strip(Head(lines)) = <<>> THEN PositionalRows(header, Tail(lines))
  ELSE LET address ==
             tsv_address(tsv_column_data(header, split(Chomp(Head(lines)), "\t")))
       IN  (IF tsv_accept(address) THEN <<address>> ELSE <<>>)
             \o PositionalRows(header, Tail(lines))

(* C9: the tabular parser's records are those built when every non-blank
   data line is split on tabs as it stands, the value at position j going to
   header name j, so that an empty leading cell shifts nothing. *)
C9_Positional ==
  Called("tsv") /\ ret.ok =>
     ret.recs = PositionalRows(TsvHeaderOf(arg.text), Tail(readlines(arg.text)))

TsvBuilt(text) ==
  LET lines == TsvDataLines(text)
  IN  [k \in 1..Len(lines) |->
         tsv_address(tsv_column_data(TsvHeaderOf(text), tsv_fields(lines[k])))]

HasIdentityAndMore(address) ==
  /\ DOMAIN address \cap IdentityKeys # {}
  /\ DOMAIN address \cap NonIdentityKeys # {}

TsvOnlyIdentityColumns(column_data) ==
  \A c \in {K_address, K_city, K_county, K_state, K_zip} : ~tsv_present(column_data, c)

(* C10: the tabular parser emits exactly the rows whose record has an
   identity field and at least one of street, city, county, state, zip; a row
   whose other columns are all empty, absent or "N/A" is dropped, and so is a
   row without a resolvable identity. *)
C10_Acceptance ==
  Called("tsv") /\ ret.ok =>
     LET lines == TsvDataLines(arg.text)
         built == TsvBuilt(arg.text)
         ColumnData(k) == tsv_column_data(TsvHeaderOf(arg.text), tsv_fields(lines[k]))
     IN  /\ ret.recs = SelectSeq(built, HasIdentityAndMore)
         /\ \A k \in 1..Len(lines) :
              TsvOnlyIdentityColumns(ColumnData(k)) \/ TsvNoIdentity(ColumnData(k))
                => ~HasIdentityAndMore(built[k])

(* a row that resolved a name and nothing else was dropped *)
C10_Witness ==
  /\ Called("tsv")
  /\ ret.ok
  /\ Len(TsvDataLines(arg.text)) = 1
  /\ DOMAIN TsvBuilt(arg.text)[1] = {"name"}
  /\ ret.recs = <<>>

====
